---- MODULE Spec2Model ----
\* A model of the bootstrap command line tool: the option resolver and the
\* preset combiner of src/src/lib.js (the revision that knows presets and
\* --dev-dependencies, lines 230-523) and the step sequencer of src/src/cli.js.
EXTENDS Integers, Sequences, FiniteSets, TLC

VARIABLES
    rawArgv,           \* the arguments of the command line
    argv,              \* the argument list handed to optionsFromArgv
    config,            \* the loaded preset configuration (presets by name)
    presetName,        \* the preset named on the command line
    pc,                \* the statement of cli() that runs next
    options,           \* the Options record returned by optionsFromArgv
    error,             \* the Error that was thrown, NoError while none was
    log,               \* file-system, program and network accesses, in order
    fs,                \* the project directory: does it exist, and its files
    cwd,               \* the process's current working directory
    requiredPrograms,  \* the module level array of cli.js
    stdout,            \* what console.log has printed
    stderr,            \* what console.warn and console.error have printed
    exitCode           \* process.exitCode

vars == << rawArgv, argv, config, presetName, pc, options, error, log, fs, cwd,
           requiredPrograms, stdout, stderr, exitCode >>

-----------------------------------------------------------------------------
\* Bounds of the model.

\* The most boolean flags one command line of the cli runs carries.
MaxFlags == 3
\* The longest --dependencies string, in characters.
MaxStrLen == 3
\* The longest --dev-dependencies string, in characters.
MaxDevStrLen == 1
\* The most flags one preset lists.
MaxPresetFlags == 2
\* The most raw arguments that follow the project name in the preset runs.
MaxRawArgs == 1

-----------------------------------------------------------------------------
\* Command line arguments.  A string option's value is a sequence of
\* characters, so that splitting it is something the model computes.

Char == {"x", "y", " "}

BooleanFlags ==
    {"git", "github", "public", "esm", "editorconfig", "prettier", "eslint",
     "lint-staged", "license", "readme"}

FlagOrder ==
    << "git", "github", "public", "esm", "editorconfig", "prettier", "eslint",
       "lint-staged", "license", "readme" >>

StringOptions == {"dependencies", "dev-dependencies"}

\* <project_name>
Pos(n) == [kind |-> "pos", name |-> n, neg |-> FALSE, val |-> << >>]
\* --git
Flag(f) == [kind |-> "bool", name |-> f, neg |-> FALSE, val |-> << >>]
\* --no-git
NoFlag(f) == [kind |-> "bool", name |-> f, neg |-> TRUE, val |-> << >>]
\* --dependencies="x y"
Str(k, s) == [kind |-> "str", name |-> k, neg |-> FALSE, val |-> s]

\* The strings of at most n characters.
RECURSIVE StringsUpTo(_)
StringsUpTo(n) ==
    IF n = 0 THEN {<< >>}
    ELSE LET shorter == StringsUpTo(n - 1)
         IN  shorter \cup {Append(s, c) : s \in shorter, c \in Char}

\* The sequences of at most n elements of S.
RECURSIVE SeqsUpTo(_, _)
SeqsUpTo(S, n) ==
    IF n = 0 THEN {<< >>}
    ELSE LET shorter == SeqsUpTo(S, n - 1)
         IN  shorter \cup {Append(s, e) : s \in shorter, e \in S}

\* The elements of s that are in S, in the order of s.
RECURSIVE Restrict(_, _)
Restrict(s, S) ==
    IF s = << >> THEN << >>
    ELSE IF Head(s) \in S
         THEN << Head(s) >> \o Restrict(Tail(s), S)
         ELSE Restrict(Tail(s), S)

\* The elements of s that are not in S, in the order of s.
RECURSIVE Without(_, _)
Without(s, S) ==
    IF s = << >> THEN << >>
    ELSE IF Head(s) \notin S
         THEN << Head(s) >> \o Without(Tail(s), S)
         ELSE Without(Tail(s), S)

-----------------------------------------------------------------------------
\* minimist(argv, {string, boolean, default}) as optionsFromArgv calls it.

\* A boolean flag holds what its last occurrence says, its default (false)
\* when it does not occur.
BoolValue(a, f) ==
    LET at == {i \in 1..Len(a) : a[i].kind = "bool" /\ a[i].name = f}
    IN  IF at = {} THEN FALSE
        ELSE LET last == CHOOSE i \in at : \A j \in at : j <= i
             IN  ~a[last].neg

\* The values a string option was given, in order: none leaves the default
\* "", one is that string, and several make minimist return an array.
RECURSIVE StringValues(_, _)
StringValues(a, k) ==
    IF a = << >> THEN << >>
    ELSE LET rest == StringValues(Tail(a), k)
         IN  IF Head(a).kind = "str" /\ Head(a).name = k
             THEN << Head(a).val >> \o rest
             ELSE rest

RECURSIVE Positionals(_)
Positionals(a) ==
    IF a = << >> THEN << >>
    ELSE IF Head(a).kind = "pos"
         THEN << Head(a).name >> \o Positionals(Tail(a))
         ELSE Positionals(Tail(a))

minimist(a) ==
    [ positional |-> Positionals(a),
      bools      |-> [f \in BooleanFlags |-> BoolValue(a, f)],
      strings    |-> [k \in StringOptions |-> StringValues(a, k)] ]

-----------------------------------------------------------------------------
\* packagesStringToArray: trim, split on a single space, drop the empty parts.

RECURSIVE TrimStart(_)
TrimStart(s) ==
    IF s # << >> /\ Head(s) = " " THEN TrimStart(Tail(s)) ELSE s

RECURSIVE TrimEnd(_)
TrimEnd(s) ==
    IF s # << >> /\ s[Len(s)] = " "
    THEN TrimEnd(SubSeq(s, 1, Len(s) - 1))
    ELSE s

Trim(s) == TrimEnd(TrimStart(s))

\* String.prototype.split(" "): the parts between the spaces, empty ones kept.
RECURSIVE Split(_)
Split(s) ==
    LET spaces == {i \in 1..Len(s) : s[i] = " "}
    IN  IF spaces = {} THEN << s >>
        ELSE LET i == CHOOSE k \in spaces : \A j \in spaces : k <= j
             IN  << SubSeq(s, 1, i - 1) >> \o Split(SubSeq(s, i + 1, Len(s)))

RECURSIVE NonEmptyParts(_)
NonEmptyParts(parts) ==
    IF parts = << >> THEN << >>
    ELSE IF Head(parts) = << >>
         THEN NonEmptyParts(Tail(parts))
         ELSE << Head(parts) >> \o NonEmptyParts(Tail(parts))

packagesStringToArray(packages) == NonEmptyParts(Split(Trim(packages)))

-----------------------------------------------------------------------------
\* Records of the run.

\* One access to the file system, an external program or the network, made by
\* the statement `step` of cli(); ok tells whether it succeeded.
Event(step, op, arg, ok) == [step |-> step, op |-> op, arg |-> arg, ok |-> ok]

Err(kind, names) == [kind |-> kind, names |-> names]

NoError == Err("none", << >>)

\* The kinds of Error the cross-flag validation of optionsFromArgv throws.
ValidationKinds == {"projectName", "github", "public", "lintStaged"}

InitialDirectory == << "work" >>

\* path.resolve(projectName), relative to the current working directory.
Resolve(dir, name) == dir \o << name >>

NoOptions ==
    [ projectName      |-> "",
      projectDirectory |-> << >>,
      git              |-> FALSE,
      github           |-> FALSE,
      public           |-> FALSE,
      moduleType       |-> "commonjs",
      dependencies     |-> << >>,
      devDependencies  |-> << >>,
      editorconfig     |-> FALSE,
      prettier         |-> FALSE,
      eslint           |-> FALSE,
      lintStaged       |-> FALSE,
      license          |-> FALSE,
      readme           |-> FALSE ]

-----------------------------------------------------------------------------
\* identifyInvalidNpmPackages and verifyNpmPackagesExist.  `registry` is the
\* set of package names `npm view` finds.

\* The loop left at the first package that is not found.
RECURSIVE identifyInvalidNpmPackages_firstOnly(_, _)
identifyInvalidNpmPackages_firstOnly(packages, registry) ==
    IF packages = << >> THEN [events |-> << >>, invalid |-> << >>]
    ELSE LET pkg    == Head(packages)
             found  == pkg \in registry
             rest   == identifyInvalidNpmPackages_firstOnly(Tail(packages), registry)
         IN  IF ~found
             THEN [ events  |-> << Event("optionsFromArgv", "npm view", pkg, found) >>,
                    invalid |-> << pkg >> ]
             ELSE [ events  |-> << Event("optionsFromArgv", "npm view", pkg, found) >>
                                \o rest.events,
                    invalid |-> rest.invalid ]

RECURSIVE identifyInvalidNpmPackages(_, _)
identifyInvalidNpmPackages(packages, registry) ==
    IF packages = << >> THEN [events |-> << >>, invalid |-> << >>]
    ELSE LET pkg    == Head(packages)
             found  == pkg \in registry
             rest   == identifyInvalidNpmPackages(Tail(packages), registry)
         IN  [ events  |-> << Event("optionsFromArgv", "npm view", pkg, found) >>
                           \o rest.events,
               invalid |-> (IF found THEN << >> ELSE << pkg >>) \o rest.invalid ]

verifyNpmPackagesExist(packages, registry) ==
    LET found == identifyInvalidNpmPackages(packages, registry)
    IN  [ events |-> found.events,
          error  |-> IF found.invalid = << >> THEN NoError
                     ELSE Err("packages", found.invalid) ]

-----------------------------------------------------------------------------
\* optionsFromArgv.

\* argv.dependencies ? packagesStringToArray(argv.dependencies) : []
\* A value given once is a string; given several times it is an array, which
\* is truthy and has no trim method.
IsArray(values) == Len(values) > 1

PackagesOf(values) ==
    IF values = << >> \/ values[1] = << >> THEN << >>
    ELSE packagesStringToArray(values[1])

BuildOptions(m, dir) ==
    [ projectName      |-> m.positional[1],
      projectDirectory |-> Resolve(dir, m.positional[1]),
      git              |-> m.bools["git"],
      github           |-> m.bools["github"],
      public           |-> m.bools["public"],
      moduleType       |-> IF m.bools["esm"] THEN "module" ELSE "commonjs",
      dependencies     |-> PackagesOf(m.strings["dependencies"]),
      devDependencies  |-> PackagesOf(m.strings["dev-dependencies"]),
      editorconfig     |-> m.bools["editorconfig"],
      prettier         |-> m.bools["prettier"],
      eslint           |-> m.bools["eslint"],
      lintStaged       |-> m.bools["lint-staged"],
      license          |-> m.bools["license"],
      readme           |-> m.bools["readme"] ]

\* The --github check with the flags swapped.
GithubWithoutGit_swapped(o) == o.git /\ ~o.github

\* if (options.github && !options.git)
GithubWithoutGit(o) == o.github /\ ~o.git

\* if (options.public && !options.github)
PublicWithoutGithub(o) == o.public /\ ~o.github

\* The --lint-staged check with the repository test inverted.
LintStagedWithoutRepository_inverted(o, existingGitRepository) ==
    existingGitRepository /\ ~o.git

\* if (!existingGitRepository && !options.git)
LintStagedWithoutRepository(o, existingGitRepository) ==
    ~existingGitRepository /\ ~o.git

Thrown(kind, names, events, out) ==
    [options |-> NoOptions, error |-> Err(kind, names), events |-> events,
     out |-> out]

\* The last part of optionsFromArgv: the two package lists are verified one
\* after the other, and the first list with a missing package throws.
VerifyDependencies(o, events, registry) ==
    LET deps    == IF o.dependencies = << >>
                   THEN [events |-> << >>, error |-> NoError]
                   ELSE verifyNpmPackagesExist(o.dependencies, registry)
        depsOut == IF o.dependencies = << >> THEN << >>
                   ELSE << "Checking packages in --dependencies exist..." >>
    IN  IF deps.error # NoError
        THEN Thrown("packages", deps.error.names, events \o deps.events, depsOut)
        ELSE LET dev    == IF o.devDependencies = << >>
                           THEN [events |-> << >>, error |-> NoError]
                           ELSE verifyNpmPackagesExist(o.devDependencies, registry)
                 devOut == IF o.devDependencies = << >> THEN << >>
                           ELSE << "Checking packages in --dev-dependencies exist..." >>
             IN  IF dev.error # NoError
                 THEN Thrown("packages", dev.error.names,
                             events \o deps.events \o dev.events,
                             depsOut \o devOut)
                 ELSE [ options |-> o, error |-> NoError,
                        events  |-> events \o deps.events \o dev.events,
                        out     |-> depsOut \o devOut ]

\* The validation with the package lists verified first.
ValidateOptions_packagesFirst(o, existingGitRepository, registry) ==
    LET verified == VerifyDependencies(o, << >>, registry)
    IN  IF verified.error # NoError THEN verified
        ELSE IF GithubWithoutGit(o)
        THEN Thrown("github", << >>, verified.events, verified.out)
        ELSE IF PublicWithoutGithub(o)
        THEN Thrown("public", << >>, verified.events, verified.out)
        ELSE IF o.lintStaged /\ LintStagedWithoutRepository(o, existingGitRepository)
        THEN Thrown("lintStaged", << >>, verified.events, verified.out)
        ELSE verified

\* The cross-flag validation, from the Options record on.
\* existingGitRepository: <projectDirectory>/.git is a directory.
ValidateOptions(o, existingGitRepository, registry) ==
    IF GithubWithoutGit(o) THEN Thrown("github", << >>, << >>, << >>)
    ELSE IF PublicWithoutGithub(o) THEN Thrown("public", << >>, << >>, << >>)
    ELSE LET stat == IF o.lintStaged
                     THEN << Event("optionsFromArgv", "fs.statSync",
                                   << ".git" >>, existingGitRepository) >>
                     ELSE << >>
         IN  IF o.lintStaged /\ LintStagedWithoutRepository(o, existingGitRepository)
             THEN Thrown("lintStaged", << >>, stat, << >>)
             ELSE VerifyDependencies(o, stat, registry)

optionsFromArgv(a, dir, existingGitRepository, registry) ==
    LET m == minimist(a)
    IN  IF m.positional = << >> \/ m.positional[1] = ""
        THEN Thrown("projectName", << >>, << >>, << >>)
        ELSE IF IsArray(m.strings["dependencies"])
                \/ IsArray(m.strings["dev-dependencies"])
        THEN Thrown("TypeError", << >>, << >>, << >>)
        ELSE ValidateOptions(BuildOptions(m, dir), existingGitRepository, registry)

-----------------------------------------------------------------------------
\* Presets.  config maps the names of the presets the configuration file
\* defines to [flags, extends]; extends is Undefined when the preset has none.

Undefined == "undefined"

\* The preset, or the Error thrown when config defines no such preset.
getPresetFromConfig(name, conf) ==
    IF name \in DOMAIN conf
    THEN [error |-> NoError, preset |-> conf[name]]
    ELSE [error  |-> Err("preset", << << name >> >>),
          preset |-> [flags |-> << >>, extends |-> Undefined]]

\* The combination with the preset's own flags ahead of its parent's.
combinePresetFlagsWithArgv_ownFirst(name, conf, a) ==
    LET got == getPresetFromConfig(name, conf)
    IN  IF got.error # NoError THEN [error |-> got.error, argv |-> a]
        ELSE IF got.preset.extends # Undefined
        THEN LET base == getPresetFromConfig(got.preset.extends, conf)
             IN  IF base.error # NoError THEN [error |-> base.error, argv |-> a]
                 ELSE [error |-> NoError,
                       argv  |-> got.preset.flags \o base.preset.flags \o a]
        ELSE [error |-> NoError, argv |-> got.preset.flags \o a]

combinePresetFlagsWithArgv(name, conf, a) ==
    LET got == getPresetFromConfig(name, conf)
    IN  IF got.error # NoError THEN [error |-> got.error, argv |-> a]
        ELSE IF got.preset.extends # Undefined
        THEN LET base == getPresetFromConfig(got.preset.extends, conf)
             IN  IF base.error # NoError THEN [error |-> base.error, argv |-> a]
                 ELSE [error |-> NoError,
                       argv  |-> base.preset.flags \o got.preset.flags \o a]
        ELSE [error |-> NoError, argv |-> got.preset.flags \o a]

-----------------------------------------------------------------------------
\* The preflight checks.

Programs == {"node", "npm", "npx", "git", "gh"}

GitSettings == << "user.name", "user.email" >>

\* Every program looked for, and the first missing one reported at the end.
RECURSIVE checkRequiredProgramsExist_all(_, _)
checkRequiredProgramsExist_all(programs, installed) ==
    IF programs = << >> THEN [events |-> << >>, error |-> NoError]
    ELSE LET program == Head(programs)
             found   == program \in installed
             this    == Event("checkRequiredProgramsExist", "which",
                              << program >>, found)
             rest    == checkRequiredProgramsExist_all(Tail(programs), installed)
         IN  [events |-> << this >> \o rest.events,
              error  |-> IF ~found THEN Err("program", << << program >> >>)
                         ELSE rest.error]

\* which(program) for each program in turn; the first one that is not
\* installed throws, and the loop is left.
RECURSIVE checkRequiredProgramsExist(_, _)
checkRequiredProgramsExist(programs, installed) ==
    IF programs = << >> THEN [events |-> << >>, error |-> NoError]
    ELSE LET program == Head(programs)
             found   == program \in installed
             this    == Event("checkRequiredProgramsExist", "which",
                              << program >>, found)
         IN  IF ~found
             THEN [events |-> << this >>,
                   error  |-> Err("program", << << program >> >>)]
             ELSE LET rest == checkRequiredProgramsExist(Tail(programs), installed)
                  IN  [events |-> << this >> \o rest.events, error |-> rest.error]

\* The check left at the first setting that is unset.
checkGlobalGitSettings_firstUnsetOnly(settingsToCheck, set) ==
    LET unset   == Without(settingsToCheck, set)
        checked == IF unset = << >> THEN settingsToCheck
                   ELSE SubSeq(settingsToCheck, 1,
                               CHOOSE i \in 1..Len(settingsToCheck) :
                                   /\ settingsToCheck[i] = unset[1]
                                   /\ \A j \in 1..(i - 1) :
                                         settingsToCheck[j] # unset[1])
    IN  [ events   |-> [i \in 1..Len(checked) |->
                           Event("checkGlobalGitSettings", "git config",
                                 << checked[i] >>, checked[i] \in set)],
          warnings |-> IF unset = << >> THEN << >>
                       ELSE << [level |-> "warn", kind |-> "git setting",
                                names |-> << << unset[1] >> >>] >> ]

\* getGlobalGitSettingValue for each setting; `set` holds the settings whose
\* lookup prints a value.  A failing lookup is caught and reads as unset.
checkGlobalGitSettings(settingsToCheck, set) ==
    LET unset == Without(settingsToCheck, set)
    IN  [ events   |-> [i \in 1..Len(settingsToCheck) |->
                           Event("checkGlobalGitSettings", "git config",
                                 << settingsToCheck[i] >>,
                                 settingsToCheck[i] \in set)],
          warnings |-> [i \in 1..Len(unset) |->
                           [level |-> "warn", kind |-> "git setting",
                            names |-> << << unset[i] >> >>]] ]

-----------------------------------------------------------------------------
\* The steps of cli().  A step is a list of calls made one after the other;
\* a call that fails throws, which ends the step and takes the run to the
\* catch block.

\* One call: the operation, its argument, and the file it leaves in the
\* project directory when it succeeds ("" when it leaves none).
Call(op, arg, file) == [op |-> op, arg |-> arg, file |-> file]

\* packages.join(" ")
RECURSIVE Join(_)
Join(packages) ==
    IF packages = << >> THEN << >>
    ELSE IF Len(packages) = 1 THEN Head(packages)
    ELSE Head(packages) \o << " " >> \o Join(Tail(packages))

\* if (options.git) { git init; generateGitIgnore() }
GitInitCalls(o) ==
    IF o.git
    THEN << Call("git init", << >>, ".git"),
            Call("fetch", << "Node.gitignore" >>, ""),
            Call("fs.writeFile", << ".gitignore" >>, ".gitignore") >>
    ELSE << >>

\* if (options.editorconfig) generateEditorConfig({ indent: "tab" })
EditorConfigCalls(o) ==
    IF o.editorconfig
    THEN << Call("generateEditorConfig", << ".editorconfig" >>, ".editorconfig") >>
    ELSE << >>

\* npm init --yes; packageJson()...save()
PackageJsonCalls(o) ==
    << Call("npm init", << "--yes" >>, "package.json"),
       Call("packageJson.save", << "type", o.moduleType, "private" >>,
            "package.json") >>

\* if (options.dependencies.length > 0) install(options.dependencies)
DependenciesCalls(o) ==
    IF Len(o.dependencies) > 0
    THEN << Call("install", Join(o.dependencies), "") >>
    ELSE << >>

\* if (options.prettier) { install("prettier"); setScript("format") }
PrettierCalls(o) ==
    IF o.prettier
    THEN << Call("install", << "prettier" >>, ""),
            Call("packageJson.save", << "format" >>, "package.json") >>
    ELSE << >>

\* The list of the earlier sequencer, which always ends with prettier.
extendsPresets_always(o) ==
    << "eslint:recommended", "plugin:node/recommended", "prettier" >>

\* const extendsPresets = [...]; if (options.prettier) push("prettier")
extendsPresets(o) ==
    << "eslint:recommended", "plugin:node/recommended" >>
        \o (IF o.prettier THEN << "prettier" >> ELSE << >>)

\* const eslintDependencies = [...]; if (options.prettier) push(...)
eslintDependencies(o) ==
    << "eslint", "eslint-plugin-node" >>
        \o (IF o.prettier THEN << "eslint-config-prettier" >> ELSE << >>)

\* if (options.eslint) { install; lint scripts; .eslintrc.json }
EslintCalls(o) ==
    IF o.eslint
    THEN << Call("install", eslintDependencies(o), ""),
            Call("packageJson.save", << "lint", "pretest" >>, "package.json"),
            Call("json.save", << ".eslintrc.json" >> \o extendsPresets(o),
                 ".eslintrc.json") >>
    ELSE << >>

\* The lint-staged step under the guard of the earlier sequencer.
LintStagedCalls_guarded(o) ==
    IF o.lintStaged /\ o.git /\ (o.prettier \/ o.eslint)
    THEN << Call("installLintStaged", << >>, "") >>
    ELSE << >>

\* if (options.lintStaged) installLintStaged({ lintStagedRules: {} })
LintStagedCalls(o) ==
    IF o.lintStaged
    THEN << Call("installLintStaged", << >>, "") >>
    ELSE << >>

\* if (options.readme) generateReadme(...)
ReadmeCalls(o) ==
    IF o.readme
    THEN << Call("template.save", << "README.md" >>, "README.md") >>
    ELSE << >>

\* if (options.git) { git add .; git commit -m "Add project skeleton" }
GitCommitCalls(o) ==
    IF o.git
    THEN << Call("git add", << "." >>, ""),
            Call("git commit", << "Add project skeleton" >>, "") >>
    ELSE << >>

\* The visibility of the earlier sequencer, which never publishes.
visibilityFlag_private(o) == "--private"

\* const visibilityFlag = options.public ? "--public" : "--private"
visibilityFlag(o) == IF o.public THEN "--public" ELSE "--private"

\* if (options.github) gh repo create <name> <visibilityFlag> ... --push
GithubCalls(o) ==
    IF o.github
    THEN << Call("gh repo create", << o.projectName, visibilityFlag(o) >>, "") >>
    ELSE << >>

\* The steps of the sequencer in the order cli() runs them, and what each
\* one calls.
Steps ==
    << "git init", "editorconfig", "package.json", "dependencies", "prettier",
       "eslint", "lint-staged", "readme", "git commit", "github" >>

\* The accesses of a step of which the first n calls succeed: all of them
\* when n is the number of calls, else call n + 1 fails.
StepEvents(step, calls, n) ==
    [i \in 1..(IF n < Len(calls) THEN n + 1 ELSE n) |->
        Event(step, calls[i].op, calls[i].arg, i <= n)]

StepFiles(calls, n) == {calls[i].file : i \in 1..n} \ {""}

-----------------------------------------------------------------------------
\* The package manifest (package.json) of the project directory: the value
\* of each of its fields, a list of strings, the empty list for a field the
\* manifest does not have.

ManifestFields ==
    {"name", "version", "description", "main", "scripts", "keywords",
     "author", "license", "type", "private", "dependencies",
     "devDependencies"}

Absent == << >>

\* The manifest of a directory without package.json.
NoManifest == [f \in ManifestFields |-> Absent]

\* npm init --yes: the fields it fills in when package.json lacks them.
NpmInitDefaults(o) ==
    [f \in ManifestFields |->
        CASE f = "name" -> << o.projectName >>
          [] f = "version" -> << "1.0.0" >>
          [] f = "description" -> << "" >>
          [] f = "main" -> << "index.js" >>
          [] f = "scripts" -> << "test" >>
          [] f = "keywords" -> << "[]" >>
          [] f = "author" -> << "" >>
          [] f = "license" -> << "ISC" >>
          [] OTHER -> Absent]

\* npm init --yes keeps the fields of an existing package.json.
NpmInit(m, o) ==
    [f \in ManifestFields |->
        IF m[f] = Absent THEN NpmInitDefaults(o)[f] ELSE m[f]]

\* The fields packageJson() unsets after npm init.
UnsetFields == {"version", "description", "main", "keywords"}

\* packageJson().unset("version").unset("description").unset("main")
\*     .unset("keywords").set("type", options.moduleType)
\*     .set("private", true).save()
PackageJsonSave(m, o) ==
    [f \in ManifestFields |->
        IF f \in UnsetFields THEN Absent
        ELSE IF f = "type" THEN << o.moduleType >>
        ELSE IF f = "private" THEN << "true" >>
        ELSE m[f]]

\* The names of the list that the field does not hold yet, added to it.
AddNames(m, field, names) ==
    [m EXCEPT ![field] =
        m[field] \o SelectSeq(names, LAMBDA s :
                        \A i \in 1..Len(m[field]) : m[field][i] # s)]

\* What one call of a step makes of the manifest: npm init and the
\* packageJson() chain of the manifest step, setScript and prependScript of
\* the prettier and eslint steps, and install(), which saves the packages
\* as dependencies (dev: false) or as development dependencies (dev: true).
Patch(step, call, m, o) ==
    CASE call.op = "npm init" -> NpmInit(m, o)
      [] call.op = "packageJson.save" /\ step = "package.json" ->
            PackageJsonSave(m, o)
      [] call.op = "packageJson.save" /\ step # "package.json" ->
            AddNames(m, "scripts", call.arg)
      [] call.op = "install" /\ step = "dependencies" ->
            AddNames(m, "dependencies", o.dependencies)
      [] call.op = "install" /\ step # "dependencies" ->
            AddNames(m, "devDependencies", call.arg)
      [] OTHER -> m

\* The manifest after the first n calls of a step.
RECURSIVE ManifestAfter(_, _, _, _, _)
ManifestAfter(step, calls, n, m, o) ==
    IF n = 0 THEN m
    ELSE Patch(step, calls[n], ManifestAfter(step, calls, n - 1, m, o), o)

\* A package.json written by hand before the run.
ExistingManifest ==
    [f \in ManifestFields |->
        CASE f = "name" -> << "proj" >>
          [] f = "version" -> << "2.3.0" >>
          [] f = "main" -> << "lib.js" >>
          [] f = "author" -> << "me" >>
          [] f = "scripts" -> << "build" >>
          [] f = "type" -> << "commonjs" >>
          [] OTHER -> Absent]

-----------------------------------------------------------------------------
\* The inputs of a run.

ProjectName == "proj"

\* The package names the registry may know; every other name is unknown.
PackageNames == {<< "x" >>, << "y" >>}

FlagSets == {S \in SUBSET BooleanFlags : Cardinality(S) <= MaxFlags}

\* --flag for each flag of S, in the order of FlagOrder.
FlagArgs(S) ==
    LET chosen == Restrict(FlagOrder, S)
    IN  [i \in 1..Len(chosen) |-> Flag(chosen[i])]

\* Command lines with flags: with or without a project name, up to MaxFlags
\* boolean flags, with or without --dependencies=x.
FlagArgvs ==
    { name \o FlagArgs(S) \o deps :
        name \in {<< >>, << Pos(ProjectName) >>},
        S \in FlagSets,
        deps \in {<< >>, << Str("dependencies", << "x" >>) >>} }

\* Command lines with package lists: every --dependencies string up to
\* MaxStrLen characters, with or without a --dev-dependencies string up to
\* MaxDevStrLen characters.
PackageArgvs ==
    { << Pos(ProjectName), Str("dependencies", s) >> \o dev :
        s \in StringsUpTo(MaxStrLen),
        dev \in {<< >>} \cup
                {<< Str("dev-dependencies", t) >> : t \in StringsUpTo(MaxDevStrLen)} }

CliArgvs == FlagArgvs \cup PackageArgvs

\* The project directory before the run: absent, present, present and
\* holding a git repository, or present and holding a package.json.
InitialFs ==
    { [dir |-> FALSE, files |-> {}, eslintrc |-> << >>,
        manifest |-> NoManifest],
      [dir |-> TRUE, files |-> {}, eslintrc |-> << >>,
        manifest |-> NoManifest],
      [dir |-> TRUE, files |-> {".git"}, eslintrc |-> << >>,
        manifest |-> NoManifest],
      [dir |-> TRUE, files |-> {"package.json"}, eslintrc |-> << >>,
        manifest |-> ExistingManifest] }

\* loadConfig() when there is no configuration file.
NoConfig == << >>

Init ==
    /\ rawArgv \in CliArgvs
    /\ argv = rawArgv
    /\ config = NoConfig
    /\ presetName = Undefined
    /\ pc = "optionsFromArgv"
    /\ options = NoOptions
    /\ error = NoError
    /\ log = << >>
    /\ fs \in IF rawArgv \in FlagArgvs THEN InitialFs
              ELSE {[dir |-> FALSE, files |-> {}, eslintrc |-> << >>,
        manifest |-> NoManifest]}
    /\ cwd = InitialDirectory
    /\ requiredPrograms = << "node", "npm", "npx" >>
    /\ stdout = << >>
    /\ stderr = << >>
    /\ exitCode = 0

-----------------------------------------------------------------------------
\* cli(): one action per statement of the try block, and the catch block.

\* const options = await optionsFromArgv(argv)
CliOptionsFromArgv ==
    /\ pc = "optionsFromArgv"
    /\ \E registry \in SUBSET PackageNames :
          LET r == optionsFromArgv(argv, cwd, ".git" \in fs.files, registry)
          IN  /\ options' = r.options
              /\ error' = r.error
              /\ log' = log \o r.events
              /\ stdout' = stdout \o r.out
              /\ pc' = IF r.error = NoError THEN "checkGlobalGitSettings"
                       ELSE "catch"
    /\ UNCHANGED << rawArgv, argv, config, presetName, fs, cwd,
                    requiredPrograms, stderr, exitCode >>

\* if (options.git) { requiredPrograms.push("git", "gh");
\*                    await checkGlobalGitSettings([...]) }
CliCheckGlobalGitSettings ==
    /\ pc = "checkGlobalGitSettings"
    /\ IF options.git
       THEN \E set \in SUBSET {"user.name", "user.email"} :
               LET r == checkGlobalGitSettings(GitSettings, set)
               IN  /\ requiredPrograms' = requiredPrograms \o << "git", "gh" >>
                   /\ log' = log \o r.events
                   /\ stderr' = stderr \o r.warnings
       ELSE UNCHANGED << requiredPrograms, log, stderr >>
    /\ pc' = "checkRequiredProgramsExist"
    /\ UNCHANGED << rawArgv, argv, config, presetName, options, error, fs, cwd,
                    stdout, exitCode >>

\* await checkRequiredProgramsExist(requiredPrograms)
CliCheckRequiredProgramsExist ==
    /\ pc = "checkRequiredProgramsExist"
    /\ \E installed \in SUBSET Programs :
          LET r == checkRequiredProgramsExist(requiredPrograms, installed)
          IN  /\ log' = log \o r.events
              /\ error' = r.error
              /\ pc' = IF r.error = NoError THEN "ensureProjectDirectory"
                       ELSE "catch"
    /\ UNCHANGED << rawArgv, argv, config, presetName, options, fs, cwd,
                    requiredPrograms, stdout, stderr, exitCode >>

\* const projectDirectory = await ensureProjectDirectory(options.projectName)
CliEnsureProjectDirectory ==
    /\ pc = "ensureProjectDirectory"
    /\ LET exists == Event("ensureProjectDirectory", "fs.pathExists",
                           << options.projectName >>, fs.dir)
           made(ok) == Event("ensureProjectDirectory", "fs.ensureDir",
                             << options.projectName >>, ok)
       IN  \/ /\ fs.dir
              /\ log' = Append(log, exists)
              /\ pc' = "cd"
              /\ UNCHANGED << fs, stdout, error >>
           \/ /\ ~fs.dir
              /\ log' = log \o << exists, made(TRUE) >>
              /\ fs' = [fs EXCEPT !.dir = TRUE]
              /\ stdout' = Append(stdout, "Created project directory")
              /\ pc' = "cd"
              /\ UNCHANGED error
           \/ /\ ~fs.dir
              /\ log' = log \o << exists, made(FALSE) >>
              /\ error' = Err("failed", << << "fs.ensureDir" >> >>)
              /\ pc' = "catch"
              /\ UNCHANGED << fs, stdout >>
    /\ UNCHANGED << rawArgv, argv, config, presetName, options, cwd,
                    requiredPrograms, stderr, exitCode >>

\* A sequencer that goes on to its steps without cd(projectDirectory).
CliCd_skipped ==
    /\ pc = "cd"
    /\ pc' = "git init"
    /\ UNCHANGED << rawArgv, argv, config, presetName, options, error, log, fs,
                    cwd, requiredPrograms, stdout, stderr, exitCode >>

\* cd(projectDirectory)
CliCd ==
    /\ pc = "cd"
    /\ cwd' = Resolve(cwd, options.projectName)
    /\ log' = Append(log, Event("cd", "cd", << options.projectName >>, TRUE))
    /\ pc' = "git init"
    /\ UNCHANGED << rawArgv, argv, config, presetName, options, error, fs,
                    requiredPrograms, stdout, stderr, exitCode >>

\* A step of the sequencer: its calls run in order until one fails.
SequencerStep(step, calls, next) ==
    /\ pc = step
    /\ \E n \in 0..Len(calls) :
          /\ log' = log \o StepEvents(step, calls, n)
          /\ fs' = [fs EXCEPT
                      !.files = @ \cup StepFiles(calls, n),
                      !.eslintrc = IF ".eslintrc.json" \in StepFiles(calls, n)
                                   THEN extendsPresets(options) ELSE @,
                      !.manifest = ManifestAfter(step, calls, n, @, options)]
          /\ IF n = Len(calls)
             THEN pc' = next /\ UNCHANGED error
             ELSE /\ pc' = "catch"
                  /\ error' = Err("failed", << << calls[n + 1].op >> >>)
    /\ UNCHANGED << rawArgv, argv, config, presetName, options, cwd,
                    requiredPrograms, stdout, stderr, exitCode >>

CliGitInit == SequencerStep("git init", GitInitCalls(options), "editorconfig")

CliEditorConfig ==
    SequencerStep("editorconfig", EditorConfigCalls(options), "package.json")

CliPackageJson ==
    SequencerStep("package.json", PackageJsonCalls(options), "dependencies")

CliDependencies ==
    SequencerStep("dependencies", DependenciesCalls(options), "prettier")

CliPrettier == SequencerStep("prettier", PrettierCalls(options), "eslint")

CliEslint == SequencerStep("eslint", EslintCalls(options), "lint-staged")

CliLintStaged ==
    SequencerStep("lint-staged", LintStagedCalls(options), "packageJson.get")

\* const projectPackageJson = packageJson().get()
CliReadPackageJson ==
    SequencerStep("packageJson.get",
                  << Call("packageJson.get", << "package.json" >>, "") >>,
                  "readme")

CliReadme == SequencerStep("readme", ReadmeCalls(options), "git commit")

CliGitCommit == SequencerStep("git commit", GitCommitCalls(options), "github")

CliGithub ==
    SequencerStep("github", GithubCalls(options), "displayCompletedMessage")

\* displayCompletedMessage({ projectName })
CliDisplayCompletedMessage ==
    /\ pc = "displayCompletedMessage"
    /\ stdout' = Append(stdout, "has been successfully bootstrapped")
    /\ pc' = "exit"
    /\ UNCHANGED << rawArgv, argv, config, presetName, options, error, log, fs,
                    cwd, requiredPrograms, stderr, exitCode >>

\* process.exitCode = 1
ErrorExitCode == 1

\* The catch block that prints the error and leaves the exit code alone.
exitWithError_noExitCode ==
    /\ pc = "catch"
    /\ stderr' = Append(stderr, [level |-> "error", kind |-> error.kind,
                                 names |-> error.names])
    /\ pc' = "exit"
    /\ UNCHANGED << rawArgv, argv, config, presetName, options, error, log, fs,
                    cwd, requiredPrograms, stdout, exitCode >>

\* catch (error) { exitWithError(`Error: ${error.message}`) }
exitWithError ==
    /\ pc = "catch"
    /\ stderr' = Append(stderr, [level |-> "error", kind |-> error.kind,
                                 names |-> error.names])
    /\ exitCode' = ErrorExitCode
    /\ pc' = "exit"
    /\ UNCHANGED << rawArgv, argv, config, presetName, options, error, log, fs,
                    cwd, requiredPrograms, stdout >>

Next ==
    \/ CliOptionsFromArgv
    \/ CliCheckGlobalGitSettings
    \/ CliCheckRequiredProgramsExist
    \/ CliEnsureProjectDirectory
    \/ CliCd
    \/ CliGitInit
    \/ CliEditorConfig
    \/ CliPackageJson
    \/ CliDependencies
    \/ CliPrettier
    \/ CliEslint
    \/ CliLintStaged
    \/ CliReadPackageJson
    \/ CliReadme
    \/ CliGitCommit
    \/ CliGithub
    \/ CliDisplayCompletedMessage
    \/ exitWithError

Spec == Init /\ [][Next]_vars

-----------------------------------------------------------------------------
\* Preset runs: combinePresetFlagsWithArgv applied to a configuration, a
\* preset name and the raw arguments, and optionsFromArgv applied to the
\* combined list.

\* Three presets: a, b (which may extend a) and c (which extends b).  Each
\* lists up to MaxPresetFlags flags.
Configs ==
    { [ a |-> [flags |-> fa, extends |-> Undefined],
        b |-> [flags |-> fb, extends |-> eb],
        c |-> [flags |-> fc, extends |-> "b"] ] :
        fa \in SeqsUpTo({Flag("git"), Str("dependencies", << "x" >>)},
                        MaxPresetFlags),
        fb \in SeqsUpTo({Flag("readme"), NoFlag("git")}, MaxPresetFlags),
        fc \in SeqsUpTo({Flag("eslint")}, MaxPresetFlags),
        eb \in {Undefined, "a"} }

\* The project name and up to MaxRawArgs arguments after it.
PresetArgvs ==
    { << Pos(ProjectName) >> \o rest :
        rest \in SeqsUpTo({Flag("git"), NoFlag("git"),
                           Str("dependencies", << "y" >>)}, MaxRawArgs) }

InitPreset ==
    /\ rawArgv \in PresetArgvs
    /\ argv = rawArgv
    /\ config \in Configs
    /\ presetName \in {"b", "c", "zz"}
    /\ pc = "combinePresetFlagsWithArgv"
    /\ options = NoOptions
    /\ error = NoError
    /\ log = << >>
    /\ fs = [dir |-> FALSE, files |-> {}, eslintrc |-> << >>,
        manifest |-> NoManifest]
    /\ cwd = InitialDirectory
    /\ requiredPrograms = << "node", "npm", "npx" >>
    /\ stdout = << >>
    /\ stderr = << >>
    /\ exitCode = 0

\* argv = combinePresetFlagsWithArgv({ presetName, config, argv })
CombinePreset ==
    /\ pc = "combinePresetFlagsWithArgv"
    /\ LET r == combinePresetFlagsWithArgv(presetName, config, argv)
       IN  /\ argv' = r.argv
           /\ error' = r.error
           /\ pc' = IF r.error = NoError THEN "optionsFromArgv" ELSE "catch"
    /\ UNCHANGED << rawArgv, config, presetName, options, log, fs, cwd,
                    requiredPrograms, stdout, stderr, exitCode >>

NextPreset ==
    \/ CombinePreset
    \/ CliOptionsFromArgv
    \/ exitWithError

SpecPreset == InitPreset /\ [][NextPreset]_vars

-----------------------------------------------------------------------------
\* Several runs in one process: cli() is an exported function, and what it
\* keeps outside its body (requiredPrograms, the working directory, the
\* output streams, the exit code) is what the next call finds.

\* The number of calls of cli() in one process.
MaxRuns == 2

\* The command lines of the calls: the project name, with or without --git.
RepeatArgvs ==
    { << Pos(ProjectName) >>, << Pos(ProjectName), Flag("git") >> }

\* The calls of cli() that have ended: each one has displayed the completed
\* message or exited with an error.
Ended ==
    Len(SelectSeq(stdout, LAMBDA l : l = "has been successfully bootstrapped"))
      + Len(SelectSeq(stderr, LAMBDA m : m.level = "error"))

InitRepeat ==
    /\ rawArgv \in RepeatArgvs
    /\ argv = rawArgv
    /\ config = NoConfig
    /\ presetName = Undefined
    /\ pc = "optionsFromArgv"
    /\ options = NoOptions
    /\ error = NoError
    /\ log = << >>
    /\ fs = [dir |-> FALSE, files |-> {}, eslintrc |-> << >>,
             manifest |-> NoManifest]
    /\ cwd = InitialDirectory
    /\ requiredPrograms = << "node", "npm", "npx" >>
    /\ stdout = << >>
    /\ stderr = << >>
    /\ exitCode = 0

\* cli(argv) called again once the call before it has ended.  The project
\* name resolves against the working directory the earlier call left: the
\* same project directory if that call never reached cd, a directory that
\* does not exist yet if it did.
CliAgain ==
    /\ pc = "exit"
    /\ Ended < MaxRuns
    /\ rawArgv' \in RepeatArgvs
    /\ argv' = rawArgv'
    /\ pc' = "optionsFromArgv"
    /\ options' = NoOptions
    /\ error' = NoError
    /\ fs' = IF cwd = InitialDirectory THEN fs
             ELSE [dir |-> FALSE, files |-> {}, eslintrc |-> << >>,
                   manifest |-> NoManifest]
    /\ UNCHANGED << config, presetName, log, cwd, requiredPrograms, stdout,
                    stderr, exitCode >>

NextRepeat ==
    \/ Next
    \/ CliAgain

SpecRepeat == InitRepeat /\ [][NextRepeat]_vars

-----------------------------------------------------------------------------
\* What the properties below speak about.

\* optionsFromArgv has run.
Resolved == pc \notin {"combinePresetFlagsWithArgv", "optionsFromArgv"}

\* optionsFromArgv has returned an Options record.
Returned == Resolved /\ options # NoOptions

\* What minimist reads from the argument list optionsFromArgv was given.
Parsed == minimist(argv)

HasProjectName == Parsed.positional # << >>

\* The accesses the statement `step` of cli() has made, in order.
RECURSIVE EventsOf(_, _)
EventsOf(l, step) ==
    IF l = << >> THEN << >>
    ELSE IF Head(l).step = step
         THEN << Head(l) >> \o EventsOf(Tail(l), step)
         ELSE EventsOf(Tail(l), step)

\* The accesses of the run that are an operation of Ops, in order.
RECURSIVE EventsWithOp(_, _)
EventsWithOp(l, Ops) ==
    IF l = << >> THEN << >>
    ELSE IF Head(l).op \in Ops
         THEN << Head(l) >> \o EventsWithOp(Tail(l), Ops)
         ELSE EventsWithOp(Tail(l), Ops)

-----------------------------------------------------------------------------
\* C1 as stated: when optionsFromArgv throws a cross-flag validation error
\* (missing project name, --github without --git, --public without --github,
\* disallowed --lint-staged), nothing has been accessed yet: no file, no
\* external program, no registry.
C1_NoAccessBeforeValidationError ==
    error.kind \in ValidationKinds => log = << >>

\* C1 amended: a cross-flag validation error is thrown before any file-system
\* write, program invocation or registry call.  The missing-project-name,
\* --github and --public errors precede every file-system access; the
\* --lint-staged error follows exactly one read-only fs.statSync of
\* <projectDirectory>/.git and nothing else.
C1_NoSideEffectBeforeValidationError ==
    error.kind \in ValidationKinds =>
        /\ fs \in InitialFs
        /\ cwd = InitialDirectory
        /\ log = IF error.kind = "lintStaged"
                 THEN << Event("optionsFromArgv", "fs.statSync", << ".git" >>,
                               FALSE) >>
                 ELSE << >>

\* A --lint-staged validation error has been reported, after the one stat.
C1_Witness ==
    /\ pc = "exit"
    /\ error.kind = "lintStaged"
    /\ Len(stderr) = 1
    /\ Len(log) = 1

\* C2: with a project name, optionsFromArgv throws the --github error
\* whenever github is set without git and the --public error whenever public
\* is set without github, so that every Options record it returns satisfies
\* public => github => git.
C2_GithubNeedsGitPublicNeedsGithub ==
    /\ Resolved /\ HasProjectName /\ Parsed.bools["github"] /\ ~Parsed.bools["git"]
           => error.kind = "github" /\ options = NoOptions
    /\ Resolved /\ HasProjectName /\ Parsed.bools["public"] /\ ~Parsed.bools["github"]
           => error.kind = "public" /\ options = NoOptions
    /\ Returned => /\ options.public => options.github
                   /\ options.github => options.git

\* A run with --git --github --public whose options were returned, and that
\* went on to create the public repository.
C2_Witness ==
    /\ Returned
    /\ options.public
    /\ pc = "exit"
    /\ error = NoError

\* C3 as stated: every returned Options record with lintStaged has git (or
\* a repository already in the project directory) and prettier or eslint.
C3_LintStagedNeedsGitAndLinter ==
    Returned /\ options.lintStaged =>
        /\ options.git \/ ".git" \in fs.files
        /\ options.prettier \/ options.eslint

\* C3 amended: lintStaged requires git or a repository already in the project
\* directory, and nothing else: optionsFromArgv throws whenever --lint-staged
\* is set with neither, and every returned Options record with lintStaged has
\* git or an existing .git directory.
C3_LintStagedNeedsRepository ==
    /\ Resolved /\ HasProjectName /\ Parsed.bools["lint-staged"]
         /\ ~Parsed.bools["git"] /\ ".git" \notin fs.files
           => error.kind \in ValidationKinds /\ options = NoOptions
    /\ Returned /\ options.lintStaged => options.git \/ ".git" \in fs.files

\* --lint-staged accepted without --git, on the strength of the repository
\* that was already there, and with neither --prettier nor --eslint.
C3_Witness ==
    /\ Returned
    /\ options.lintStaged
    /\ ~options.git
    /\ ".git" \in fs.files
    /\ ~options.prettier /\ ~options.eslint

-----------------------------------------------------------------------------
\* The presets of the run, when they are defined.
Preset == config[presetName]

\* combinePresetFlagsWithArgv has returned the combined list.
Combined == pc # "combinePresetFlagsWithArgv" /\ error.kind # "preset"

\* C4: for a preset that extends another one, combinePresetFlagsWithArgv
\* returns the parent's flags, then the preset's own flags, then the raw
\* arguments, each in its order; for a preset that extends nothing, the
\* preset's flags and then the raw arguments.
C4_ParentFlagsThenOwnFlagsThenArgv ==
    Combined =>
        LET own    == Preset.flags
            parent == IF Preset.extends = Undefined THEN << >>
                      ELSE config[Preset.extends].flags
        IN  /\ Len(argv) = Len(parent) + Len(own) + Len(rawArgv)
            /\ SubSeq(argv, 1, Len(parent)) = parent
            /\ SubSeq(argv, Len(parent) + 1, Len(parent) + Len(own)) = own
            /\ SubSeq(argv, Len(parent) + Len(own) + 1, Len(argv)) = rawArgv

\* The example of the specification: a lists --git, b extends a and lists
\* --readme, and resolving b gives --git, --readme and then the arguments.
C4_Witness ==
    /\ Combined
    /\ presetName = "b"
    /\ config["a"].flags = << Flag("git") >>
    /\ config["b"] = [flags |-> << Flag("readme") >>, extends |-> "a"]
    /\ argv = << Flag("git"), Flag("readme") >> \o rawArgv

\* C5: when a preset flag and a raw argument set the same option, parsing
\* the combined list produces an Options record, and the record carries the
\* raw argument's value for that option: the last raw --git / --no-git for
\* git, the raw --dependencies string for dependencies.
C5_RawArgumentWins ==
    Combined /\ Resolved =>
        LET raw == minimist(rawArgv)
            presetFlags == SubSeq(argv, 1, Len(argv) - Len(rawArgv))
        IN  /\ (\E i \in 1..Len(rawArgv) :
                    rawArgv[i].kind = "bool" /\ rawArgv[i].name = "git")
                /\ (\E i \in 1..Len(presetFlags) :
                    presetFlags[i].kind = "bool" /\ presetFlags[i].name = "git")
                /\ Returned
                  => options.git = raw.bools["git"]
            /\ raw.strings["dependencies"] # << >>
                /\ StringValues(presetFlags, "dependencies") # << >>
                  => /\ error.kind \in {"none", "packages"}
                     /\ Returned => options.dependencies
                                       = PackagesOf(raw.strings["dependencies"])

\* The flags of a preset and of all the presets it extends, the furthest
\* ancestor first.  The configurations of the model have no cycle.
RECURSIVE AncestorFlags(_, _)
AncestorFlags(conf, name) ==
    IF conf[name].extends = Undefined THEN conf[name].flags
    ELSE AncestorFlags(conf, conf[name].extends) \o conf[name].flags

\* C6: extension is resolved transitively: resolving a preset prepends the
\* flags of every ancestor to the raw arguments, the furthest ancestor first.
C6_ExtensionIsTransitive ==
    Combined => argv = AncestorFlags(config, presetName) \o rawArgv

-----------------------------------------------------------------------------
\* The registry lookups of the run, the names looked up, and the names among
\* them that the registry does not know.
Lookups == EventsWithOp(log, {"npm view"})

LookupNames == [i \in 1..Len(Lookups) |-> Lookups[i].arg]

RECURSIVE FailedNames(_)
FailedNames(events) ==
    IF events = << >> THEN << >>
    ELSE (IF Head(events).ok THEN << >> ELSE << Head(events).arg >>)
             \o FailedNames(Tail(events))

\* The string a string option was given (once) on the command line.
Given(k) ==
    IF Parsed.strings[k] = << >> THEN << >> ELSE Parsed.strings[k][1]

RECURSIVE Flatten(_)
Flatten(names) ==
    IF names = << >> THEN << >> ELSE Head(names) \o Flatten(Tail(names))

\* names are the words of the string s: none is empty, none holds a space,
\* and together they are s without its spaces.
WordsOf(names, s) ==
    /\ \A i \in 1..Len(names) :
          names[i] # << >> /\ \A j \in 1..Len(names[i]) : names[i][j] # " "
    /\ Flatten(names) = Without(s, {" "})
    /\ Len(names) <= (Len(s) + 1) \div 2

\* C7 as stated: for every dependency string, every name in it is looked up,
\* a name the registry does not know makes optionsFromArgv throw one error
\* that lists exactly the unknown names, in input order, and with every name
\* known the names are returned in input order.
C7_EveryNameOfEveryListLookedUp ==
    Resolved /\ HasProjectName /\ error.kind \in {"none", "packages"} =>
        LET deps == PackagesOf(Parsed.strings["dependencies"])
            dev  == PackagesOf(Parsed.strings["dev-dependencies"])
        IN  /\ WordsOf(deps, Given("dependencies"))
            /\ WordsOf(dev, Given("dev-dependencies"))
            /\ LookupNames = deps \o dev
            /\ error.kind = "packages" <=> FailedNames(Lookups) # << >>
            /\ error.kind = "packages" => error.names = FailedNames(Lookups)
            /\ error.kind = "none" => /\ options.dependencies = deps
                                      /\ options.devDependencies = dev

\* C7 amended: the two package lists are verified in turn.  Every name of
\* the --dependencies string is looked up; the names of the
\* --dev-dependencies string are looked up only when every --dependencies
\* name exists.  The first list with an unknown name makes optionsFromArgv
\* throw one error that lists exactly the unknown names of that list, in
\* input order; with every name known, the names are returned in input order.
C7_ListsVerifiedInTurn ==
    Resolved /\ HasProjectName /\ error.kind \in {"none", "packages"} =>
        LET deps == PackagesOf(Parsed.strings["dependencies"])
            dev  == PackagesOf(Parsed.strings["dev-dependencies"])
            depsFailed == \E i \in 1..Len(deps) :
                              i <= Len(Lookups) /\ ~Lookups[i].ok
        IN  /\ WordsOf(deps, Given("dependencies"))
            /\ WordsOf(dev, Given("dev-dependencies"))
            /\ LookupNames = IF depsFailed THEN deps ELSE deps \o dev
            /\ error.kind = "packages" <=> FailedNames(Lookups) # << >>
            /\ error.kind = "packages" => error.names = FailedNames(Lookups)
            /\ error.kind = "none" => /\ options.dependencies = deps
                                      /\ options.devDependencies = dev

\* "x y" with y known and x unknown: both names were looked up, and the
\* error names x alone.
C7_Witness ==
    /\ pc = "exit"
    /\ Given("dependencies") = << "x", " ", "y" >>
    /\ LookupNames = << << "x" >>, << "y" >> >>
    /\ error = Err("packages", << << "x" >> >>)

-----------------------------------------------------------------------------
\* The statements of cli() in the order of the function body.
Statements ==
    << "optionsFromArgv", "checkGlobalGitSettings",
       "checkRequiredProgramsExist", "ensureProjectDirectory", "cd",
       "git init", "editorconfig", "package.json", "dependencies",
       "prettier", "eslint", "lint-staged", "packageJson.get", "readme",
       "git commit", "github", "displayCompletedMessage" >>

Position(statement) ==
    CHOOSE i \in 1..Len(Statements) : Statements[i] = statement

\* The statement has run to its end without throwing.
Passed(statement) ==
    /\ error = NoError
    /\ \/ pc = "exit"
       \/ /\ \E i \in 1..Len(Statements) : Statements[i] = pc
          /\ Position(pc) > Position(statement)

\* The order of the steps that C8 gives.
ClaimedOrder ==
    << "ensureProjectDirectory", "git init", "editorconfig", "package.json",
       "dependencies", "prettier", "eslint", "lint-staged", "readme",
       "git commit", "github" >>

ClaimedPosition(step) ==
    CHOOSE i \in 1..Len(ClaimedOrder) : ClaimedOrder[i] = step

ClaimedSteps == {ClaimedOrder[i] : i \in 1..Len(ClaimedOrder)}

\* The flag that C8 says controls the step.
Wanted(step) ==
    CASE step = "git init"     -> options.git
      [] step = "editorconfig" -> options.editorconfig
      [] step = "dependencies" -> options.dependencies # << >>
      [] step = "prettier"     -> options.prettier
      [] step = "eslint"       -> options.eslint
      [] step = "lint-staged"  -> options.lintStaged
      [] step = "readme"       -> options.readme
      [] step = "git commit"   -> options.git
      [] step = "github"       -> options.github
      [] OTHER                 -> TRUE

\* The file each step writes.
WrittenBy(file) ==
    CASE file = ".gitignore"     -> "git init"
      [] file = ".editorconfig"  -> "editorconfig"
      [] file = ".eslintrc.json" -> "eslint"
      [] file = "README.md"      -> "readme"
      [] OTHER                   -> "package.json"

\* C8: the steps that execute do so in the fixed order (project directory,
\* git init and .gitignore, EditorConfig, manifest, dependency install,
\* Prettier, ESLint, lint-staged, README, git commit, GitHub repository);
\* a step executes if and only if its flag is true (the dependency install
\* if and only if the list is not empty), and a skipped step accesses
\* nothing and writes no file.
C8_StepsInOrderIffRequested ==
    /\ \A i, j \in 1..Len(log) :
          i < j /\ log[i].step \in ClaimedSteps /\ log[j].step \in ClaimedSteps
            => ClaimedPosition(log[i].step) <= ClaimedPosition(log[j].step)
    /\ \A step \in ClaimedSteps :
          /\ EventsOf(log, step) # << >> => Returned /\ Wanted(step)
          /\ Passed(step) /\ Wanted(step)
               => /\ EventsOf(log, step) # << >>
                  /\ \A i \in 1..Len(EventsOf(log, step)) :
                        \/ EventsOf(log, step)[i].ok
                        \/ EventsOf(log, step)[i].op = "fs.pathExists"
    /\ \A file \in fs.files \ {".git", "package.json"} :
          Returned /\ Wanted(WrittenBy(file))
    /\ "package.json" \in fs.files =>
          Returned \/ fs.manifest = ExistingManifest
    /\ fs.eslintrc # << >> => Returned /\ options.eslint

\* A run with --git --eslint --readme that ran every step to the end.
C8_Witness ==
    /\ pc = "exit"
    /\ error = NoError
    /\ options.git /\ options.eslint /\ options.readme
    /\ {".git", ".gitignore", "package.json", ".eslintrc.json", "README.md"}
           \subseteq fs.files
    /\ EventsOf(log, "editorconfig") = << >>

-----------------------------------------------------------------------------
SuccessMessage == "has been successfully bootstrapped"

InSeq(x, s) == \E i \in 1..Len(s) : s[i] = x

\* C9: once a step has raised, no later step executes and what the
\* completed steps did stays as it is (nothing is rolled back, files are
\* only ever added); the error message goes to the error stream and the
\* process ends with a non-zero exit code and without the success message.
\* When no step raises, the success message is displayed and the exit code
\* is zero.
C9_AbortWithoutRollback ==
    /\ [](pc = "exit" =>
            IF error # NoError
            THEN /\ exitCode # 0
                 /\ stderr # << >>
                 /\ stderr[Len(stderr)] = [level |-> "error", kind |-> error.kind,
                                           names |-> error.names]
                 /\ ~InSeq(SuccessMessage, stdout)
            ELSE /\ exitCode = 0
                 /\ stdout # << >>
                 /\ stdout[Len(stdout)] = SuccessMessage
                 /\ \A i \in 1..Len(stderr) : stderr[i].level # "error")
    /\ [][/\ error # NoError
             => log' = log /\ fs' = fs /\ cwd' = cwd /\ stdout' = stdout
                  /\ error' = error
          /\ fs.files \subseteq fs'.files
          /\ fs.dir => fs'.dir]_vars

\* git commit failed after the manifest was written: the files stay, the
\* error is reported and the exit code is 1.
C9_Witness ==
    /\ pc = "exit"
    /\ error = Err("failed", << << "git commit" >> >>)
    /\ {".git", ".gitignore", "package.json"} \subseteq fs.files
    /\ exitCode = 1

-----------------------------------------------------------------------------
\* The which() calls of checkRequiredProgramsExist.
Which == EventsOf(log, "checkRequiredProgramsExist")

\* C10: checkRequiredProgramsExist resolves the programs in list order; the
\* first program that does not resolve ends the check with an error naming
\* it, the programs after it are not checked, and the run is over before the
\* project directory is created.  The check succeeds only when every
\* program of the list resolves.
C10_FirstMissingProgramAborts ==
    /\ error.kind = "program" => Which # << >> /\ ~Which[Len(Which)].ok
    /\ Which # << >> =>
          /\ Len(Which) <= Len(requiredPrograms)
          /\ \A i \in 1..Len(Which) :
                /\ Which[i].arg = << requiredPrograms[i] >>
                /\ i < Len(Which) => Which[i].ok
          /\ IF Which[Len(Which)].ok
             THEN Len(Which) = Len(requiredPrograms) /\ error.kind # "program"
             ELSE /\ error = Err("program", << Which[Len(Which)].arg >>)
                  /\ log[Len(log)] = Which[Len(Which)]
                  /\ fs \in InitialFs
                  /\ cwd = InitialDirectory
                  /\ ~InSeq("Created project directory", stdout)

\* With --git, node, npm and npx resolved and git did not: the error names
\* git, and gh was never looked for.
C10_Witness ==
    /\ pc = "exit"
    /\ error = Err("program", << << "git" >> >>)
    /\ Len(Which) = 4
    /\ Len(requiredPrograms) = 5
    /\ ~fs.dir

-----------------------------------------------------------------------------
\* The git config lookups of checkGlobalGitSettings, and the settings the
\* warnings on the error stream name.
GitConfigLookups == EventsOf(log, "checkGlobalGitSettings")

Warnings == SelectSeq(stderr, LAMBDA m : m.level = "warn")

WarnedSettings == [i \in 1..Len(Warnings) |-> Warnings[i].names[1]]

\* C11: checkGlobalGitSettings never raises.  Whatever subset of user.name
\* and user.email is unset (or fails to be looked up), it looks up every
\* setting, in order, warns once for each setting that is unset and for no
\* other, and the run goes on to the next statement; when git is not
\* requested nothing is looked up and nothing is warned about.
C11_UnsetGitSettingsOnlyWarn ==
    /\ [](Returned /\ pc # "checkGlobalGitSettings" =>
            IF options.git
            THEN /\ [i \in 1..Len(GitConfigLookups) |-> GitConfigLookups[i].arg]
                       = << << "user.name" >>, << "user.email" >> >>
                 /\ WarnedSettings = FailedNames(GitConfigLookups)
            ELSE GitConfigLookups = << >> /\ Warnings = << >>)
    /\ [][pc = "checkGlobalGitSettings" =>
            /\ pc' = "checkRequiredProgramsExist"
            /\ error' = NoError
            /\ exitCode' = 0]_vars

\* Neither setting is set: two warnings, and the run still ended well.
C11_Witness ==
    /\ pc = "exit"
    /\ error = NoError
    /\ options.git
    /\ WarnedSettings = << << "user.name" >>, << "user.email" >> >>
    /\ exitCode = 0

-----------------------------------------------------------------------------
\* The install calls of the run that name the package.
InstallsOf(package) ==
    SelectSeq(log, LAMBDA e : e.op = "install" /\ InSeq(package, e.arg))

\* C12: when eslint is requested, the .eslintrc.json that is written extends
\* eslint:recommended and plugin:node/recommended, followed by prettier if
\* and only if prettier is requested too, and eslint-config-prettier is
\* installed if and only if prettier is requested too; when eslint is not
\* requested, no ESLint configuration is written.
C12_EslintConfigFollowsPrettier ==
    /\ fs.eslintrc # << >> \/ ".eslintrc.json" \in fs.files =>
          /\ Returned /\ options.eslint
          /\ ".eslintrc.json" \in fs.files
          /\ fs.eslintrc = IF options.prettier
                           THEN << "eslint:recommended",
                                   "plugin:node/recommended", "prettier" >>
                           ELSE << "eslint:recommended",
                                   "plugin:node/recommended" >>
    /\ InstallsOf("eslint-config-prettier") # << >> =>
          Returned /\ options.eslint /\ options.prettier
    /\ Passed("eslint") /\ options.eslint =>
          /\ fs.eslintrc # << >>
          /\ Len(InstallsOf("eslint")) = 1
          /\ InstallsOf("eslint")[1].ok
          /\ options.prettier =>
                InstallsOf("eslint-config-prettier") = InstallsOf("eslint")

\* --eslint with --prettier: the configuration written ends with prettier.
C12_Witness ==
    /\ pc = "exit"
    /\ error = NoError
    /\ options.eslint /\ options.prettier
    /\ Len(fs.eslintrc) = 3
    /\ fs.eslintrc[3] = "prettier"
    /\ InstallsOf("eslint-config-prettier") # << >>

-----------------------------------------------------------------------------
\* The fields the manifest step sets.
SetFields == {"type", "private"}

\* C13: run against a directory that already holds a package.json, the
\* manifest step leaves every field of that manifest other than the ones it
\* sets with the value the field had before the step.
C13_OtherManifestFieldsUnchanged ==
    [][pc = "package.json" /\ "package.json" \in fs.files =>
          \A f \in ManifestFields \ SetFields :
              fs.manifest[f] # Absent => fs'.manifest[f] = fs.manifest[f]]_vars

-----------------------------------------------------------------------------
\* The remote repositories the run asked gh to create.
Remotes == SelectSeq(log, LAMBDA e : e.op = "gh repo create")

\* C14: a remote GitHub repository is created only in runs where github is
\* requested, public if and only if --public was passed and private
\* otherwise: never a public one without --public, never any without
\* --github.
C14_RemoteOnlyOnGithubPublicOnlyOnPublic ==
    /\ Len(Remotes) <= 1
    /\ Remotes # << >> =>
          /\ Returned /\ options.github
          /\ InSeq(Flag("github"), rawArgv)
          /\ Remotes[1].step = "github"
          /\ Remotes[1].arg[1] = options.projectName
          /\ Remotes[1].arg[2] \in {"--public", "--private"}
          /\ Remotes[1].arg[2] = "--public" <=> options.public
          /\ Remotes[1].arg[2] = "--public" => InSeq(Flag("public"), rawArgv)
    /\ Passed("github") /\ options.github => Remotes # << >> /\ Remotes[1].ok

\* --git --github --public: the one remote repository is public.
C14_Witness ==
    /\ pc = "exit"
    /\ error = NoError
    /\ options.github /\ options.public
    /\ Len(Remotes) = 1
    /\ Remotes[1].ok
    /\ Remotes[1].arg = << ProjectName, "--public" >>

-----------------------------------------------------------------------------
\* The changes of working directory of the run.
Cds == SelectSeq(log, LAMBDA e : e.op = "cd")

\* The accesses that write to the file system: the creation of the project
\* directory and everything the steps after it do, but for the one read of
\* the manifest.
IsWrite(e) ==
    \/ e.op = "fs.ensureDir"
    \/ e.step \in {Steps[i] : i \in 1..Len(Steps)} /\ e.op # "fetch"

\* The positions of the run at which cli() has not called cd yet.
BeforeCd ==
    {"optionsFromArgv", "checkGlobalGitSettings", "checkRequiredProgramsExist",
     "ensureProjectDirectory", "cd"}

\* C15: in every run the working directory changes exactly once, to the
\* resolved project directory, and no write to the file system, the creation
\* of the project directory included, comes before that change.
C15_CdOnceBeforeEveryWrite ==
    /\ pc = "exit" => Len(Cds) = 1
    /\ \A i \in 1..Len(log) :
          IsWrite(log[i]) => \E j \in 1..(i - 1) : log[j].op = "cd"

\* C15 amended: cli() changes the working directory at most once, to the
\* project directory under the initial directory, after it has made sure
\* that the project directory exists (creating it when it is absent) and
\* before every step that writes a file; a run that ends before cd never
\* changes it, a run that ends without error has changed it once.
C15_CdOnceAfterDirectoryBeforeSteps ==
    /\ [](/\ Len(Cds) <= 1
          /\ pc \in BeforeCd => Cds = << >>
          /\ pc \notin BeforeCd \cup {"catch", "exit"} => Len(Cds) = 1
          /\ pc = "exit" /\ error = NoError => Len(Cds) = 1
          /\ cwd = IF Cds = << >> THEN InitialDirectory
                   ELSE InitialDirectory \o << options.projectName >>
          /\ \A i \in 1..Len(log) :
                /\ log[i].op = "fs.ensureDir" =>
                      \A j \in 1..(i - 1) : log[j].op # "cd"
                /\ IsWrite(log[i]) /\ log[i].op # "fs.ensureDir" =>
                      \E j \in 1..(i - 1) : log[j].op = "cd")
    /\ [][cwd' # cwd => pc = "cd" /\ fs.dir /\ Returned]_vars

\* The project directory was absent: it is created, then entered, then the
\* manifest is written into it.
C15_Witness ==
    /\ pc = "exit"
    /\ error = NoError
    /\ InSeq("Created project directory", stdout)
    /\ Len(Cds) = 1
    /\ cwd = << "work", ProjectName >>
    /\ "package.json" \in fs.files

-----------------------------------------------------------------------------
\* C16: the list of programs the preflight check of a call of cli() requires
\* depends on the options of that call only, whatever calls came before it
\* in the process: node, npm, npx without git; node, npm, npx, git, gh with
\* git.
C16_RequiredProgramsOfThisCallOnly ==
    pc = "checkRequiredProgramsExist" =>
        requiredPrograms = IF options.git
                           THEN << "node", "npm", "npx", "git", "gh" >>
                           ELSE << "node", "npm", "npx" >>

====
